---- MODULE Spec2Model ----
(***************************************************************************)
(* Model of stock/src/utils/fetchS3Images.js: the module-level S3 client   *)
(* and the async function fetchS3Images, which lists a bucket once, maps   *)
(* every listed object to {url, key, lastModified}, sorts by lastModified  *)
(* descending and turns every failure into a logged diagnostic and [].     *)
(*                                                                         *)
(* Strings are sequences of text chunks, so that a template literal is a   *)
(* concatenation (\o) and an encoding of a key would change the sequence.  *)
(* A Date is its time value (an integer number of milliseconds).           *)
(***************************************************************************)
EXTENDS Integers, Sequences, FiniteSets, TLC

\* ------------------------------------------------------------------ bounds
\* longest listing a response carries in Spec
MaxLen == 3
\* time values of LastModified are 1..MaxTime
MaxTime == 2
\* invocations that may be in flight together in SpecConc
NumInvocations == 2

Invocations == 1..NumInvocations
Times == 1..MaxTime

\* values the environment may hold for S3_BUCKET_NAME and REGION
Buckets == {<<"my-bucket">>, <<"other-bucket">>}
Regions == {<<"us-east-1">>, <<"eu-west-1">>}
\* object keys; the second holds a character a URL would have to encode
Keys == {<<"a.png">>, <<"my", " ", "b.png">>}

\* ------------------------------------------------- the upstream's answers
\* An element of data.Contents: a listed object, or an entry that cannot be
\* read (reading .Key of it throws a TypeError).
NullEntry == [isNull |-> TRUE, Key |-> <<>>, LastModified |-> 0]
Objects == {[isNull |-> FALSE, Key |-> k, LastModified |-> t] : k \in Keys, t \in Times}
Entries == Objects \cup {NullEntry}

Listings(n) == UNION {[1..m -> Entries] : m \in 0..n}

\* The response without a Contents field (data.Contents is undefined).
NoContents == [hasContents |-> FALSE, Contents |-> <<>>, IsTruncated |-> FALSE]

\* What s3.send may resolve with: one page, truncated or not.
Responses(n) ==
  {[hasContents |-> TRUE, Contents |-> c, IsTruncated |-> tr] :
      c \in Listings(n), tr \in BOOLEAN} \cup {NoContents}

\* The responses drawn for the single invocation of Spec.
SpecResponses == Responses(MaxLen)

\* The responses drawn while several invocations are in flight.
ConcResponses ==
  LET old == [isNull |-> FALSE, Key |-> <<"a.png">>, LastModified |-> 1]
      new == [isNull |-> FALSE, Key |-> <<"my", " ", "b.png">>, LastModified |-> 2]
  IN {[hasContents |-> TRUE, Contents |-> c, IsTruncated |-> FALSE] :
         c \in {<<>>, <<old>>, <<old, new>>, <<NullEntry>>}} \cup {NoContents}

\* ------------------------------------------------------------------ state
VARIABLES
  env,       \* process.env: S3_BUCKET_NAME and REGION
  s3,        \* the module-level client: the region it was constructed with
  pc,        \* per invocation: "idle", "awaiting", "returned" or "threw"
  request,   \* per invocation: the params of the command it sent
  sends,     \* per invocation: calls of s3.send so far
  upstream,  \* per invocation: "none", "pending", "resolved" or "rejected"
  data,      \* per invocation: the response s3.send resolved with
  result,    \* per invocation: the value the promise resolved with
  console    \* per invocation: lines it wrote with console.error

vars == <<env, s3, pc, request, sends, upstream, data, result, console>>

NoRequest == [Bucket |-> <<>>, Prefix |-> <<>>]

\* Module load: dotenv.config() fills process.env, then the client is built.
Init ==
  /\ env \in [S3_BUCKET_NAME : Buckets, REGION : Regions]
  /\ s3 = [region |-> env.REGION]
  /\ pc = [i \in Invocations |-> "idle"]
  /\ request = [i \in Invocations |-> NoRequest]
  /\ sends = [i \in Invocations |-> 0]
  /\ upstream = [i \in Invocations |-> "none"]
  /\ data = [i \in Invocations |-> NoContents]
  /\ result = [i \in Invocations |-> <<>>]
  /\ console = [i \in Invocations |-> 0]

\* ------------------------------------------------------- pure computation
\* An encoding of the key (what encodeURIComponent would do to a space).
RECURSIVE EncodeKey(_)
EncodeKey(k) ==
  IF k = <<>> THEN <<>>
  ELSE <<(IF Head(k) = " " THEN "%20" ELSE Head(k))>> \o EncodeKey(Tail(k))

UrlEncoded(bucket, region, key) ==
  <<"https://">> \o bucket \o <<".s3.">> \o region \o <<".amazonaws.com/">> \o EncodeKey(key)

\* The template literal of the url.
Url(bucket, region, key) ==
  <<"https://">> \o bucket \o <<".s3.">> \o region \o <<".amazonaws.com/">> \o key

\* The map callback: one descriptor from one listed object, reading process.env.
Transform(file, e) ==
  [url |-> Url(e.S3_BUCKET_NAME, e.REGION, file.Key),
   key |-> file.Key,
   lastModified |-> file.LastModified]

Readable(file) == ~file.isNull

\* A per-entry try/catch: unreadable entries are skipped.
MapContentsPartial(d, e) ==
  LET ok == SelectSeq(d.Contents, Readable)
  IN [threw |-> ~d.hasContents,
      value |-> [n \in 1..Len(ok) |-> Transform(ok[n], e)]]

\* data.Contents.map(...): throws when Contents is undefined or when an entry
\* cannot be read; else the descriptors in the listing's order.
MapContents(d, e) ==
  IF ~d.hasContents \/ \E n \in 1..Len(d.Contents) : ~Readable(d.Contents[n])
  THEN [threw |-> TRUE, value |-> <<>>]
  ELSE [threw |-> FALSE,
        value |-> [n \in 1..Len(d.Contents) |-> Transform(d.Contents[n], e)]]

compareAscending(a, b) == a.lastModified - b.lastModified

\* The comparator: new Date(b.lastModified) - new Date(a.lastModified).
compare(a, b) == b.lastModified - a.lastModified

\* Array.prototype.sort is stable: x goes behind every element that does not
\* compare greater than it.
RECURSIVE Insert(_, _)
Insert(s, x) ==
  IF s = <<>> THEN <<x>>
  ELSE LET last == s[Len(s)]
       IN IF compare(last, x) > 0
          THEN Append(Insert(SubSeq(s, 1, Len(s) - 1), x), last)
          ELSE Append(s, x)

RECURSIVE InsertUnique(_, _)
InsertUnique(s, x) ==
  IF s = <<>> THEN <<x>>
  ELSE LET last == s[Len(s)]
       IN IF compare(last, x) > 0
          THEN Append(InsertUnique(SubSeq(s, 1, Len(s) - 1), x), last)
          ELSE IF compare(last, x) = 0 THEN s ELSE Append(s, x)

RECURSIVE SortFrom(_, _)
SortFrom(done, rest) ==
  IF rest = <<>> THEN done ELSE SortFrom(Insert(done, Head(rest)), Tail(rest))

RECURSIVE SortUniqueFrom(_, _)
SortUniqueFrom(done, rest) ==
  IF rest = <<>> THEN done
  ELSE SortUniqueFrom(InsertUnique(done, Head(rest)), Tail(rest))

\* A sort that keeps one descriptor per timestamp.
SortImagesUnique(s) == SortUniqueFrom(<<>>, s)

\* .sort(compare) on the mapped array.
SortImages(s) == SortFrom(<<>>, s)

\* ---------------------------------------------------------------- actions
\* Code outside the function assigns process.env.
SetEnv(b, r) ==
  /\ env' = [S3_BUCKET_NAME |-> b, REGION |-> r]
  /\ env' # env
  /\ UNCHANGED <<s3, pc, request, sends, upstream, data, result, console>>

\* The call up to the await: params from process.env, the command, s3.send.
Invoke(i) ==
  /\ pc[i] = "idle"
  /\ request' = [request EXCEPT ![i] = [Bucket |-> env.S3_BUCKET_NAME, Prefix |-> <<>>]]
  /\ sends' = [sends EXCEPT ![i] = @ + 1]
  /\ upstream' = [upstream EXCEPT ![i] = "pending"]
  /\ pc' = [pc EXCEPT ![i] = "awaiting"]
  /\ UNCHANGED <<env, s3, data, result, console>>

\* A catch block that logs and throws again.
CatchRethrow(i) ==
  /\ console' = [console EXCEPT ![i] = @ + 1]
  /\ pc' = [pc EXCEPT ![i] = "threw"]
  /\ UNCHANGED result

\* The catch block: console.error, return [].
Catch(i) ==
  /\ console' = [console EXCEPT ![i] = @ + 1]
  /\ result' = [result EXCEPT ![i] = <<>>]
  /\ pc' = [pc EXCEPT ![i] = "returned"]

\* The images array kept in one module-level variable that every invocation
\* returns.
ResolveSharedImages(i, d) ==
  /\ pc[i] = "awaiting"
  /\ upstream' = [upstream EXCEPT ![i] = "resolved"]
  /\ data' = [data EXCEPT ![i] = d]
  /\ LET m == MapContents(d, env)
     IN IF m.threw
        THEN Catch(i)
        ELSE /\ result' = [j \in Invocations |->
                             IF j = i \/ (pc[j] = "returned" /\ result[j] # <<>>)
                             THEN SortImages(m.value) ELSE result[j]]
             /\ pc' = [pc EXCEPT ![i] = "returned"]
             /\ UNCHANGED console
  /\ UNCHANGED <<env, s3, request, sends>>

\* s3.send resolves with d; the rest of the function runs without suspending:
\* map, sort, return, or the catch block when the map throws.
Resolve(i, d) ==
  /\ pc[i] = "awaiting"
  /\ upstream' = [upstream EXCEPT ![i] = "resolved"]
  /\ data' = [data EXCEPT ![i] = d]
  /\ LET m == MapContents(d, env)
     IN IF m.threw
        THEN Catch(i)
        ELSE /\ result' = [result EXCEPT ![i] = SortImages(m.value)]
             /\ pc' = [pc EXCEPT ![i] = "returned"]
             /\ UNCHANGED console
  /\ UNCHANGED <<env, s3, request, sends>>

\* The send of invocation i resolves with one of the given responses.
ResolveWith(i, responses) ==
  /\ pc[i] = "awaiting"
  /\ \E d \in responses : Resolve(i, d)

\* A rejected send is sent once more before giving up.
RejectRetry(i) ==
  /\ pc[i] = "awaiting"
  /\ IF sends[i] < 2
     THEN /\ sends' = [sends EXCEPT ![i] = @ + 1]
          /\ UNCHANGED <<upstream, pc, result, console>>
     ELSE /\ upstream' = [upstream EXCEPT ![i] = "rejected"]
          /\ Catch(i)
          /\ UNCHANGED sends
  /\ UNCHANGED <<env, s3, request, data>>

\* s3.send rejects (network, credentials, missing bucket): the catch block.
Reject(i) ==
  /\ pc[i] = "awaiting"
  /\ upstream' = [upstream EXCEPT ![i] = "rejected"]
  /\ Catch(i)
  /\ UNCHANGED <<env, s3, request, sends, data>>

\* One invocation, every response of up to MaxLen entries.
Next ==
  \/ \E b \in Buckets, r \in Regions : SetEnv(b, r)
  \/ Invoke(1)
  \/ ResolveWith(1, SpecResponses)
  \/ Reject(1)

Spec == Init /\ [][Next]_vars

\* Several invocations suspended at their list calls, resumed in any order.
NextConc ==
  \/ \E b \in Buckets, r \in Regions : SetEnv(b, r)
  \/ \E i \in Invocations : Invoke(i)
  \/ \E i \in Invocations : ResolveWith(i, ConcResponses)
  \/ \E i \in Invocations : Reject(i)

SpecConc == Init /\ [][NextConc]_vars

\* ----------------------------------------------------------------- claims
Returned(i) == pc[i] = "returned"

\* The invocation's own failure causes: a rejected send, a response without a
\* Contents list, a listed entry that cannot be read.
Failed(i) ==
  \/ upstream[i] = "rejected"
  \/ /\ upstream[i] = "resolved"
     /\ \/ ~data[i].hasContents
        \/ \E n \in 1..Len(data[i].Contents) : data[i].Contents[n].isNull

\* A successful call whose listing is non-empty and readable throughout.
ValidListing(i) ==
  /\ upstream[i] = "resolved"
  /\ data[i].hasContents
  /\ Len(data[i].Contents) > 0
  /\ \A n \in 1..Len(data[i].Contents) : ~data[i].Contents[n].isNull

\* C1: fetchS3Images never throws: no invocation ends by throwing, an
\* invocation whose send has settled has returned, and whenever the send was
\* rejected, the response had no Contents list or a listed entry could not be
\* read, the returned value is the empty sequence.
C1_NeverThrows ==
  \A i \in Invocations :
    /\ pc[i] # "threw"
    /\ upstream[i] \in {"resolved", "rejected"} => Returned(i)
    /\ Failed(i) => result[i] = <<>>

\* The map failed at the second entry of a listing whose first was readable.
C1_Witness ==
  /\ Returned(1)
  /\ upstream[1] = "resolved"
  /\ Len(data[1].Contents) >= 2
  /\ ~data[1].Contents[1].isNull
  /\ data[1].Contents[2].isNull
  /\ result[1] = <<>>

\* C2: in every returned sequence, a descriptor that appears before another
\* has a lastModified that is greater or equal (sorted descending).
C2_SortedDescending ==
  \A i \in Invocations :
    Returned(i) =>
      \A m, n \in 1..Len(result[i]) :
        m < n => result[i][m].lastModified >= result[i][n].lastModified

\* A listing delivered oldest first and holding a tie was returned reordered.
C2_Witness ==
  /\ Returned(1)
  /\ ValidListing(1)
  /\ Len(data[1].Contents) = 3
  /\ data[1].Contents[1].LastModified < data[1].Contents[2].LastModified
  /\ data[1].Contents[2].LastModified = data[1].Contents[3].LastModified
  /\ Len(result[1]) = 3
  /\ result[1][1].key # data[1].Contents[1].Key

\* C3: when an invocation returns, every descriptor's url is "https://" +
\* bucket + ".s3." + region + ".amazonaws.com/" + key, with the bucket and
\* region the environment holds as the response is handled and key that
\* descriptor's own key, which is the key of a listed object, unchanged.
C3_UrlIsConcatenation ==
  [][\A i \in Invocations :
       (pc[i] = "awaiting" /\ pc'[i] = "returned") =>
         \A n \in 1..Len(result'[i]) :
           LET im == result'[i][n]
           IN /\ im.url = <<"https://">> \o env.S3_BUCKET_NAME \o <<".s3.">>
                            \o env.REGION \o <<".amazonaws.com/">> \o im.key
              /\ \E m \in 1..Len(data'[i].Contents) :
                   data'[i].Contents[m].Key = im.key]_vars

\* A descriptor whose key holds a space was returned, the space still in it.
C3_Witness ==
  /\ Returned(1)
  /\ \E n \in 1..Len(result[1]) :
       /\ result[1][n].key = <<"my", " ", "b.png">>
       /\ Len(result[1][n].url) = 8
       /\ result[1][n].url[7] = " "

\* C4: after a successful call with a non-empty listing the returned sequence
\* is as long as the listing.
C4_LengthPreserved ==
  \A i \in Invocations :
    (Returned(i) /\ ValidListing(i)) => Len(result[i]) = Len(data[i].Contents)

\* A listing naming the same object twice, next to a third, came back whole.
C4_Witness ==
  /\ Returned(1)
  /\ ValidListing(1)
  /\ Len(data[1].Contents) = 3
  /\ data[1].Contents[1] = data[1].Contents[2]
  /\ data[1].Contents[3] # data[1].Contents[1]
  /\ Len(result[1]) = 3

\* C5: an invocation that has started has called s3.send exactly once, also
\* after a rejection and after a truncated response; one not started, never.
C5_ExactlyOneRequest ==
  \A i \in Invocations :
    sends[i] = IF pc[i] = "idle" THEN 0 ELSE 1

\* An invocation returned from a response marked truncated.
C5_Witness ==
  /\ Returned(1)
  /\ upstream[1] = "resolved"
  /\ data[1].IsTruncated
  /\ Len(result[1]) > 0
  /\ sends[1] = 1

\* C6: when the call succeeds and the response lists nothing, as an empty
\* Contents list or as no Contents field, the invocation returns <<>>.
C6_EmptyBucket ==
  \A i \in Invocations :
    (upstream[i] = "resolved"
       /\ (~data[i].hasContents \/ data[i].Contents = <<>>))
      => (Returned(i) /\ result[i] = <<>>)

\* The response without a Contents field was answered with <<>>.
C6_Witness ==
  /\ Returned(1)
  /\ upstream[1] = "resolved"
  /\ ~data[1].hasContents
  /\ result[1] = <<>>

\* How often object (k, t) is listed in c, and described in r.
Listed(c, k, t) ==
  Cardinality({n \in 1..Len(c) : ~c[n].isNull /\ c[n].Key = k /\ c[n].LastModified = t})
Described(r, k, t) ==
  Cardinality({n \in 1..Len(r) : r[n].key = k /\ r[n].lastModified = t})

\* C7: a returned sequence is empty, or it has one descriptor for each object
\* of the response with that object's key and lastModified.
C7_AllOrNothing ==
  \A i \in Invocations :
    Returned(i) =>
      \/ result[i] = <<>>
      \/ /\ upstream[i] = "resolved"
         /\ Len(result[i]) = Len(data[i].Contents)
         /\ \A k \in Keys, t \in Times :
              Described(result[i], k, t) = Listed(data[i].Contents, k, t)

\* The third entry of a listing could not be read and nothing was returned.
C7_Witness ==
  /\ Returned(1)
  /\ Len(data[1].Contents) = 3
  /\ ~data[1].Contents[1].isNull
  /\ ~data[1].Contents[2].isNull
  /\ data[1].Contents[3].isNull
  /\ result[1] = <<>>
  /\ console[1] = 1

\* What an invocation returns when it runs alone: from the outcome of its
\* send, the response and the environment as the response is handled.
Alone(u, d, e) ==
  IF u = "rejected" \/ ~d.hasContents
       \/ \E n \in 1..Len(d.Contents) : d.Contents[n].isNull
  THEN <<>>
  ELSE SortImages([n \in 1..Len(d.Contents) |-> Transform(d.Contents[n], e)])

\* C8: a step of one invocation changes nothing of another invocation and
\* nothing of the shared environment and client, and the value it returns is
\* the one it returns alone with its own response.
C8_Independent ==
  [][\A i \in Invocations :
       pc'[i] # pc[i] =>
         /\ env' = env /\ s3' = s3
         /\ \A j \in Invocations \ {i} :
              /\ pc'[j] = pc[j] /\ request'[j] = request[j]
              /\ sends'[j] = sends[j] /\ upstream'[j] = upstream[j]
              /\ data'[j] = data[j] /\ result'[j] = result[j]
              /\ console'[j] = console[j]
         /\ pc'[i] = "returned" =>
              result'[i] = Alone(upstream'[i], data'[i], env)]_vars

\* Two invocations returned different non-empty listings.
C8_Witness ==
  /\ Returned(1) /\ Returned(2)
  /\ Len(result[1]) = 1
  /\ Len(result[2]) = 2
  /\ data[1] # data[2]

\* C9: the bucket in every returned url is the bucket named in the
\* invocation's list request, and the region in it is the region the client
\* was constructed with.
C9_BoundAtConstruction ==
  \A i \in Invocations :
    Returned(i) =>
      \A n \in 1..Len(result[i]) :
        result[i][n].url = Url(request[i].Bucket, s3.region, result[i][n].key)

\* C10: a returned invocation wrote one diagnostic when its send was
\* rejected and none when its send succeeded.
C10_DiagnosticIffRejected ==
  \A i \in Invocations :
    Returned(i) => console[i] = IF upstream[i] = "rejected" THEN 1 ELSE 0

====
